---- MODULE Spec2Model ----
(***************************************************************************)
(* FROST transport adapters and session runners (src/frost/keygen.rs,      *)
(* src/frost/signing.rs).                                                  *)
(*                                                                         *)
(* The model holds, per session run, the ChannelSink (sequence counter),   *)
(* the ChannelStream over the inbound queue, the position of the runner    *)
(* (run_frost_keygen / run_frost_signing_with_benchmark), its locals and   *)
(* the result record it returns.  The protocol engine (givre/round_based)  *)
(* and the transport are the environment: the engine calls the adapters in *)
(* any order and completes with Ok or Err; the transport takes envelopes   *)
(* from outbound queues, puts envelopes into inbound queues and closes     *)
(* queues.  The two adapter pairs (keygen, signing) are the same code up   *)
(* to the payload type and are modelled once.                              *)
(***************************************************************************)
EXTENDS Integers, Sequences, FiniteSets, TLC

VARIABLES
    cfg,        \* [Runs -> arguments of the run]
    pc,         \* [Runs -> position of the runner]
    chan,       \* [Chans -> [buf, closed]] the async_channel queues
    sink,       \* [Runs -> Option(ChannelSink fields)]
    eng,        \* [Runs -> the engine task: active / waiting, transport faults seen]
    loc,        \* [Runs -> locals of the runner]
    recorder,   \* [Runs -> BenchmarkRecorder]
    result,     \* [Runs -> sequence of the result records returned]
    sendlog,    \* [Runs -> the start_send calls made, with what each returned]
    yieldlog,   \* [Runs -> what poll_next returned Ready, in order]
    wire,       \* envelope codec: the envelope given, its serialized text
    decoded,    \* envelope codec: Option(result of deserializing the text)
    entry,      \* [Runs -> the function the caller called to start the run]
    lastop,     \* [Runs -> Option(the sink's last poll_* call and what it returned)]
    sig,        \* signature bytes: Option(a SchnorrSignature value)
    sigbytes    \* signature bytes: Option(what to_bytes returned for it)

\* The state outside a session run and its two queues
aux == <<entry, lastop, sig, sigbytes>>

vars == <<cfg, pc, chan, sink, eng, loc, recorder, result, sendlog, yieldlog,
          wire, decoded, aux>>

(***************************************************************************)
(* Bounds of the model.                                                    *)
(***************************************************************************)
MaxSends == 2       \* start_send calls per sink
MaxDeliver == 1     \* envelopes the transport puts into one inbound queue
Capacity == 1       \* capacity the caller gave the bounded queues

Runs == {1, 2}
Chans == {"in1", "out1", "in2", "out2"}
Sessions == {"s1", "s2"}
Parties == {0, 1}
Durations == {0, 1}     \* values read from Instant::elapsed, as ticks

(***************************************************************************)
(* Option<T>: None is the empty sequence, Some(x) the one-element one, so  *)
(* that Some(0) and None differ.                                           *)
(***************************************************************************)
None == <<>>
Some(x) == <<x>>
IsSome(o) == Len(o) = 1
Unwrap(o) == o[1]

RECURSIVE SeqToSet(_)
SeqToSet(s) == IF s = <<>> THEN {} ELSE {Head(s)} \cup SeqToSet(Tail(s))

Last(s) == s[Len(s)]

(***************************************************************************)
(* Engine messages and their serde_json encoding.  A message is a variant  *)
(* name; its JSON text is the name in double quotes, as bytes.  "Unser" is *)
(* a message whose serialization fails (the Err arm of to_vec).            *)
(***************************************************************************)
EngineMsgs == {"R1", "R2", "Unser"}
Quote == 34
VariantBytes(m) ==
    CASE m = "R1" -> <<82, 49>>
      [] m = "R2" -> <<82, 50>>
      [] OTHER    -> <<>>

\* serde_json::to_vec(&item.msg)
to_vec(m) ==
    IF m \in {"R1", "R2"}
    THEN [ok |-> TRUE, bytes |-> <<Quote>> \o VariantBytes(m) \o <<Quote>>]
    ELSE [ok |-> FALSE, bytes |-> <<>>]

\* serde_json::from_slice(&msg.payload)
from_slice(bytes) ==
    IF /\ Len(bytes) >= 2
       /\ bytes[1] = Quote
       /\ bytes[Len(bytes)] = Quote
       /\ \E m \in {"R1", "R2"} : SubSeq(bytes, 2, Len(bytes) - 1) = VariantBytes(m)
    THEN [ok |-> TRUE,
          msg |-> CHOOSE m \in {"R1", "R2"} :
                      SubSeq(bytes, 2, Len(bytes) - 1) = VariantBytes(m)]
    ELSE [ok |-> FALSE, msg |-> ""]

(***************************************************************************)
(* round_based::MessageDestination and the items the engine sends.         *)
(***************************************************************************)
AllParties == [tag |-> "AllParties"]
OneParty(p) == [tag |-> "OneParty", p |-> p]
Destinations == {AllParties} \cup {OneParty(p) : p \in Parties}
Outgoing(dest, m) == [recipient |-> dest, msg |-> m]
AllItems == {Outgoing(d, m) : d \in Destinations, m \in EngineMsgs}

(***************************************************************************)
(* ProtocolMessage (the envelope).                                         *)
(***************************************************************************)
ProtocolMessage(sid, sender, recipient, round, payload, seq) ==
    [session_id |-> sid, sender |-> sender, recipient |-> recipient,
     round |-> round, payload |-> payload, seq |-> seq]

(***************************************************************************)
(* The envelope's serde_json text (derive(Serialize, Deserialize)), as a   *)
(* sequence of JSON tokens: punctuation, strings, numbers, null.  Fields   *)
(* are written in declaration order; Option is null or the value; Vec<u8>  *)
(* is an array of numbers.                                                 *)
(***************************************************************************)
P(x) == [t |-> "punct", s |-> x, n |-> 0]
S(x) == [t |-> "str", s |-> x, n |-> 0]
N(k) == [t |-> "num", s |-> "", n |-> k]
Null == [t |-> "null", s |-> "", n |-> 0]

U8Max == 255
U16Max == 65535

\* recipient: Option<u16>
EncodeRecipientZeroForNone(o) == IF o = None THEN <<N(0)>> ELSE <<N(Unwrap(o))>>

EncodeRecipient(o) == IF o = None THEN <<Null>> ELSE <<N(Unwrap(o))>>

\* payload: Vec<u8>
RECURSIVE EncodeElems(_)
EncodeElems(v) ==
    IF v = <<>> THEN <<>>
    ELSE IF Len(v) = 1 THEN <<N(v[1])>>
    ELSE <<N(v[1]), P(",")>> \o EncodeElems(Tail(v))

EncodePayload(v) == <<P("[")>> \o EncodeElems(v) \o <<P("]")>>

\* serde_json::to_string(&msg)
to_string(msg) ==
    <<P("{"), S("session_id"), P(":"), S(msg.session_id), P(","),
      S("sender"), P(":"), N(msg.sender), P(","),
      S("recipient"), P(":")>> \o EncodeRecipient(msg.recipient) \o
    <<P(","), S("round"), P(":"), N(msg.round), P(","),
      S("payload"), P(":")>> \o EncodePayload(msg.payload) \o
    <<P(","), S("seq"), P(":"), N(msg.seq), P("}")>>

IsNum(tok, max) == tok.t = "num" /\ tok.n >= 0 /\ tok.n <= max

\* The array elements from token i on: the bytes and the index after "]"
RECURSIVE ParseElems(_, _, _)
ParseElems(toks, i, acc) ==
    IF i > Len(toks) THEN [ok |-> FALSE, vals |-> <<>>, next |-> i]
    ELSE IF toks[i] = P("]") /\ acc = <<>>
    THEN [ok |-> TRUE, vals |-> <<>>, next |-> i + 1]
    ELSE IF ~IsNum(toks[i], U8Max) \/ i + 1 > Len(toks)
    THEN [ok |-> FALSE, vals |-> <<>>, next |-> i]
    ELSE IF toks[i + 1] = P("]")
    THEN [ok |-> TRUE, vals |-> Append(acc, toks[i].n), next |-> i + 2]
    ELSE IF toks[i + 1] = P(",")
    THEN ParseElems(toks, i + 2, Append(acc, toks[i].n))
    ELSE [ok |-> FALSE, vals |-> <<>>, next |-> i]

NoMessage == ProtocolMessage("", 0, None, 0, <<>>, 0)

\* serde_json::from_str::<ProtocolMessage>(&serialized)
from_str(toks) ==
    IF /\ Len(toks) >= 26
       /\ SubSeq(toks, 1, 3) = <<P("{"), S("session_id"), P(":")>>
       /\ toks[4].t = "str"
       /\ SubSeq(toks, 5, 7) = <<P(","), S("sender"), P(":")>>
       /\ IsNum(toks[8], U16Max)
       /\ SubSeq(toks, 9, 11) = <<P(","), S("recipient"), P(":")>>
       /\ (toks[12] = Null \/ IsNum(toks[12], U16Max))
       /\ SubSeq(toks, 13, 15) = <<P(","), S("round"), P(":")>>
       /\ IsNum(toks[16], U16Max)
       /\ SubSeq(toks, 17, 20) = <<P(","), S("payload"), P(":"), P("[")>>
    THEN LET arr == ParseElems(toks, 21, <<>>)
             k == arr.next
         IN  IF /\ arr.ok
                /\ Len(toks) = k + 4
                /\ SubSeq(toks, k, k + 2) = <<P(","), S("seq"), P(":")>>
                /\ toks[k + 3].t = "num"
                /\ toks[k + 3].n >= 0
                /\ toks[k + 4] = P("}")
             THEN [ok |-> TRUE,
                   val |-> ProtocolMessage(toks[4].s, toks[8].n,
                               IF toks[12] = Null THEN None ELSE Some(toks[12].n),
                               toks[16].n, arr.vals, toks[k + 3].n)]
             ELSE [ok |-> FALSE, val |-> NoMessage]
    ELSE [ok |-> FALSE, val |-> NoMessage]

(***************************************************************************)
(* ChannelSink::start_send, piece by piece.                                *)
(***************************************************************************)
\* *this.seq += 1  (u64; the bounds stay far below 2^64)
NextSeqStuck(seq) == seq

NextSeq(seq) == seq + 1

\* match &item.recipient { AllParties => (None, 0), OneParty(p) => (Some(*p), 0) }
DestRecipient(dest) ==
    IF dest.tag = "AllParties" THEN None ELSE Some(dest.p)

DestRoundOfParty(dest) == IF dest.tag = "AllParties" THEN 0 ELSE dest.p

DestRound(dest) == 0

\* Sender::try_send: Closed if the queue is closed, Full if it is at capacity
try_sendEnqueuesAnyway(ch, msg) ==
    [ret |-> IF ch.closed THEN "Closed"
             ELSE IF Len(ch.buf) >= Capacity THEN "Full" ELSE "Ok",
     ch |-> [ch EXCEPT !.buf = Append(@, msg)]]

try_send(ch, msg) ==
    IF ch.closed THEN [ret |-> "Closed", ch |-> ch]
    ELSE IF Len(ch.buf) >= Capacity THEN [ret |-> "Full", ch |-> ch]
    ELSE [ret |-> "Ok", ch |-> [ch EXCEPT !.buf = Append(@, msg)]]

\* The envelope start_send builds from the sink's fields and the item
BuildEnvelope(s, item, payload, seq) ==
    ProtocolMessage(s.session_id, s.party_index,
                    DestRecipient(item.recipient), DestRound(item.recipient),
                    payload, seq)

\* start_send as a function of the sink, the queue and the item:
\* the sink and the queue afterwards, the value returned, the envelope enqueued
StartSendOutcomeSeqOnSuccess(s, ch, item) ==
    LET seq == NextSeq(s.seq)
        s2  == [s EXCEPT !.seq = seq]
        ser == to_vec(item.msg)
    IN  IF ~ser.ok
        THEN [sink |-> s, ch |-> ch, ret |-> "InvalidData", env |-> None]
        ELSE LET msg == BuildEnvelope(s, item, ser.bytes, seq)
                 ts  == try_send(ch, msg)
             IN  [sink |-> IF ts.ret = "Ok" THEN s2 ELSE s,
                  ch |-> ts.ch, ret |-> ts.ret,
                  env |-> IF ts.ret = "Ok" THEN Some(msg) ELSE None]

StartSendOutcome(s, ch, item) ==
    LET seq == NextSeq(s.seq)
        s2  == [s EXCEPT !.seq = seq]
        ser == to_vec(item.msg)
    IN  IF ~ser.ok
        THEN [sink |-> s2, ch |-> ch, ret |-> "InvalidData", env |-> None]
        ELSE LET msg == BuildEnvelope(s, item, ser.bytes, seq)
                 ts  == try_send(ch, msg)
             IN  [sink |-> s2, ch |-> ts.ch, ret |-> ts.ret,
                  env |-> IF ts.ret = "Ok" THEN Some(msg) ELSE None]

(***************************************************************************)
(* ChannelSink::poll_ready, poll_flush, poll_close: each is                *)
(* Poll::Ready(Ok(())) and touches neither the sink nor the queue.  As     *)
(* functions of the sink and the queue: what is returned, the sink and the *)
(* queue afterwards.                                                       *)
(***************************************************************************)
poll_readyPendingWhenFull(s, ch) ==
    [ret |-> IF Len(ch.buf) >= Capacity THEN "Pending" ELSE "Ready(Ok)",
     sink |-> s, ch |-> ch]

poll_ready(s, ch) == [ret |-> "Ready(Ok)", sink |-> s, ch |-> ch]

poll_flush(s, ch) == [ret |-> "Ready(Ok)", sink |-> s, ch |-> ch]

poll_closeClosesQueue(s, ch) ==
    [ret |-> "Ready(Ok)", sink |-> s, ch |-> [ch EXCEPT !.closed = TRUE]]

poll_close(s, ch) == [ret |-> "Ready(Ok)", sink |-> s, ch |-> ch]

(***************************************************************************)
(* ChannelStream::poll_next, piece by piece.                               *)
(***************************************************************************)
\* msg_type: if msg.recipient.is_some() { P2P } else { Broadcast }
MsgTypeSwapped(msg) == IF IsSome(msg.recipient) THEN "Broadcast" ELSE "P2P"

MsgType(msg) == IF IsSome(msg.recipient) THEN "P2P" ELSE "Broadcast"

\* round_based::Incoming { id, sender, msg_type, msg }
Incoming(msg, protocol_msg) ==
    [id |-> msg.seq, sender |-> msg.sender, msg_type |-> MsgType(msg),
     msg |-> protocol_msg]

\* What poll_next returns for an envelope taken from the queue
DecodeEnvelope(msg) ==
    LET de == from_slice(msg.payload)
    IN  IF de.ok THEN [tag |-> "Ok", incoming |-> Incoming(msg, de.msg)]
        ELSE [tag |-> "Err", kind |-> "InvalidData"]

\* poll_next as a function of the queue: Pending, Ready(None) or Ready(Some(..)),
\* and the queue afterwards
PollNextOutcomeNewestFirst(ch) ==
    IF ch.buf # <<>>
    THEN [poll |-> "Ready", env |-> Some(Last(ch.buf)),
          out |-> DecodeEnvelope(Last(ch.buf)),
          ch |-> [ch EXCEPT !.buf = SubSeq(@, 1, Len(@) - 1)]]
    ELSE IF ch.closed
    THEN [poll |-> "Ready", env |-> None, out |-> [tag |-> "End"], ch |-> ch]
    ELSE [poll |-> "Pending", env |-> None, out |-> [tag |-> "Pending"], ch |-> ch]

PollNextOutcomeEndOnClose(ch) ==
    IF ch.closed
    THEN [poll |-> "Ready", env |-> None, out |-> [tag |-> "End"], ch |-> ch]
    ELSE IF ch.buf # <<>>
    THEN [poll |-> "Ready", env |-> Some(Head(ch.buf)),
          out |-> DecodeEnvelope(Head(ch.buf)),
          ch |-> [ch EXCEPT !.buf = Tail(@)]]
    ELSE [poll |-> "Pending", env |-> None, out |-> [tag |-> "Pending"], ch |-> ch]

PollNextOutcomeBroadcastOnly(ch) ==
    LET rest == IF ch.buf # <<>> /\ IsSome(Head(ch.buf).recipient)
                THEN Tail(ch.buf) ELSE ch.buf
    IN  IF rest # <<>>
        THEN [poll |-> "Ready", env |-> Some(Head(rest)),
              out |-> DecodeEnvelope(Head(rest)),
              ch |-> [ch EXCEPT !.buf = Tail(rest)]]
        ELSE IF ch.closed
        THEN [poll |-> "Ready", env |-> None, out |-> [tag |-> "End"],
              ch |-> [ch EXCEPT !.buf = rest]]
        ELSE [poll |-> "Pending", env |-> None, out |-> [tag |-> "Pending"],
              ch |-> [ch EXCEPT !.buf = rest]]

PollNextOutcome(ch) ==
    IF ch.buf # <<>>
    THEN [poll |-> "Ready", env |-> Some(Head(ch.buf)),
          out |-> DecodeEnvelope(Head(ch.buf)),
          ch |-> [ch EXCEPT !.buf = Tail(@)]]
    ELSE IF ch.closed
    THEN [poll |-> "Ready", env |-> None, out |-> [tag |-> "End"], ch |-> ch]
    ELSE [poll |-> "Pending", env |-> None, out |-> [tag |-> "Pending"], ch |-> ch]

(***************************************************************************)
(* Byte strings the engine hands back: curve points and scalars.           *)
(***************************************************************************)
XOnlyLen == 32
CompressedLen == 33

\* 32 distinguishable bytes
Body(seed) == [i \in 1..XOnlyLen |-> (seed * 16 + i) % 256]
\* prefix || x
Compressed(prefix, seed) == <<prefix>> \o Body(seed)

\* What Point::to_bytes may return: the two compressed forms, the x-only form,
\* and encodings of an unexpected length (one byte short, one byte long)
EnginePoints ==
    {Compressed(2, 7), Compressed(3, 7), Body(7),
     SubSeq(Body(7), 1, XOnlyLen - 1), Compressed(2, 7) \o <<0>>}

\* What Scalar::to_be_bytes may return
EngineScalars == {Body(9), SubSeq(Body(9), 1, XOnlyLen - 1)}

(***************************************************************************)
(* The key share: opaque to the runner but for its shared public key,      *)
(* whether the taproot tweak applies to it, and its serialization.         *)
(***************************************************************************)
KeyShare(pk, tweakable, serializable) ==
    [pk |-> pk, tweakable |-> tweakable, serializable |-> serializable]

\* serde_json::to_vec(&key_share): a framed blob, or an error
KeyShareToVec(ks) ==
    IF ks.serializable
    THEN [ok |-> TRUE,
          bytes |-> <<123>> \o ks.pk \o <<IF ks.tweakable THEN 1 ELSE 0>> \o <<125>>]
    ELSE [ok |-> FALSE, bytes |-> <<>>]

\* serde_json::from_slice(key_share_data)
KeyShareFromSlice(bytes) ==
    IF /\ Len(bytes) >= 3
       /\ bytes[1] = 123
       /\ bytes[Len(bytes)] = 125
       /\ bytes[Len(bytes) - 1] \in {0, 1}
    THEN [ok |-> TRUE,
          val |-> KeyShare(SubSeq(bytes, 2, Len(bytes) - 2),
                           bytes[Len(bytes) - 1] = 1, TRUE)]
    ELSE [ok |-> FALSE, val |-> KeyShare(<<>>, FALSE, FALSE)]

\* Key shares a keygen engine run may end with
KeygenOutputs ==
    {KeyShare(pk, TRUE, TRUE) : pk \in EnginePoints}
        \cup {KeyShare(Compressed(2, 7), TRUE, FALSE),
              KeyShare(Compressed(3, 7), FALSE, TRUE)}

\* key_share_data a caller may pass to a signing run
KeyShareBlobs ==
    {KeyShareToVec(KeyShare(Compressed(2, 7), TRUE, TRUE)).bytes,
     KeyShareToVec(KeyShare(Compressed(3, 7), FALSE, TRUE)).bytes,
     <<1, 2, 3>>}

\* Signatures a signing engine run may end with
SigningOutputs ==
    {[r |-> r, z |-> Body(9)] : r \in EnginePoints}
        \cup {[r |-> Compressed(2, 7), z |-> z] : z \in EngineScalars}

EngineErrors == {"Aborted"}

EngineOk(v) == [ok |-> TRUE, val |-> v, err |-> ""]
EngineErr(e) == [ok |-> FALSE, val |-> <<>>, err |-> e]

(***************************************************************************)
(* BenchmarkRecorder (crate::bench): a log of phase names, frozen by       *)
(* complete(); report() is a snapshot of it.  The elapsed time handed to   *)
(* record_step is accumulated by the recorder and read by nothing here.    *)
(***************************************************************************)
BenchNew == [steps |-> <<>>, completed |-> FALSE]
record_step(rec, name) == [rec EXCEPT !.steps = Append(@, name)]
complete(rec) == [rec EXCEPT !.completed = TRUE]
report(rec) == [phases |-> rec.steps, completed |-> rec.completed]

\* if enable_benchmark { if let Ok(mut rec) = recorder.lock() { rec.record_step(..) } }
\* The lock is held by this task alone and is never poisoned.
RecordIfAlways(enable, rec, name) == record_step(rec, name)

RecordIf(enable, rec, name) == IF enable THEN record_step(rec, name) ELSE rec

(***************************************************************************)
(* Result records.                                                         *)
(***************************************************************************)
FrostKeygenResult(success, key_share_data, public_key, error, duration_secs) ==
    [success |-> success, key_share_data |-> key_share_data,
     public_key |-> public_key, error |-> error, duration_secs |-> duration_secs]

FrostSigningResult(success, signature, error, duration_secs, benchmark) ==
    [success |-> success, signature |-> signature, error |-> error,
     duration_secs |-> duration_secs, benchmark |-> benchmark]

SchnorrSignature(r, s) == [r |-> r, s |-> s]

\* SchnorrSignature::to_bytes: sig.extend_from_slice(&self.r);
\* sig.extend_from_slice(&self.s)
to_bytesSFirst(g) == g.s \o g.r

to_bytes(g) == g.r \o g.s

\* A keygen failure record: no payload, the error, the duration
KeygenFailureNoError(error, elapsed) ==
    FrostKeygenResult(FALSE, None, None, None, elapsed)

KeygenFailure(error, elapsed) ==
    FrostKeygenResult(FALSE, None, None, Some(error), elapsed)

\* A signing failure record
SigningFailure(error, elapsed, benchmark) ==
    FrostSigningResult(FALSE, None, Some(error), elapsed, benchmark)

\* keygen.rs 228-234: the x-only key of a 33- or 32-byte encoding
XOnlyKeepPrefix(pk_bytes) ==
    IF Len(pk_bytes) = CompressedLen
    THEN SubSeq(pk_bytes, 1, XOnlyLen)
    ELSE pk_bytes

XOnly(pk_bytes) ==
    IF Len(pk_bytes) = CompressedLen
    THEN SubSeq(pk_bytes, 2, CompressedLen)
    ELSE pk_bytes

\* signing.rs 342-350: the same for the R point
XOnlyR(r_point_bytes) ==
    IF Len(r_point_bytes) = CompressedLen
    THEN SubSeq(r_point_bytes, 2, CompressedLen)
    ELSE r_point_bytes

\* signing.rs 368: r.len() != 32 || s.len() != 32
ComponentLengthBadROnly(r, s) == Len(r) # XOnlyLen

ComponentLengthBad(r, s) == Len(r) # XOnlyLen \/ Len(s) # XOnlyLen

\* keygen.rs 211-286: the match on keygen_result
KeygenResultOf(kr, elapsed) ==
    IF kr.ok
    THEN LET pk_bytes == kr.val.pk
         IN  IF Len(pk_bytes) # CompressedLen /\ Len(pk_bytes) # XOnlyLen
             THEN KeygenFailure(<<"Unexpected public key length: ", Len(pk_bytes)>>,
                                elapsed)
             ELSE LET public_key_bytes == XOnly(pk_bytes)
                      ser == KeyShareToVec(kr.val)
                  IN  IF ~ser.ok
                      THEN KeygenFailure(<<"Serialization error: ", "key share">>,
                                         elapsed)
                      ELSE FrostKeygenResult(TRUE, Some(ser.bytes),
                               Some(public_key_bytes), None, elapsed)
    ELSE KeygenFailure(<<"Protocol error: ", kr.err>>, elapsed)

\* if enable_benchmark { rec.complete(); Some(rec.report()) } else { None }
FinishBenchmark(enable, rec) ==
    IF enable
    THEN [rec |-> complete(rec), report |-> Some(report(complete(rec)))]
    ELSE [rec |-> rec, report |-> None]

\* signing.rs 332-444: the match on signing_result; the recorder afterwards and
\* the result
SigningResultOf(sr, elapsed, enable, rec) ==
    IF sr.ok
    THEN LET r_point_bytes == sr.val.r
         IN  IF Len(r_point_bytes) # CompressedLen /\ Len(r_point_bytes) # XOnlyLen
             THEN [rec |-> rec,
                   res |-> SigningFailure(
                       <<"Unexpected R point length: ", Len(r_point_bytes)>>,
                       elapsed, None)]
             ELSE LET r == XOnlyR(r_point_bytes)
                      s == sr.val.z
                  IN  IF ComponentLengthBad(r, s)
                      THEN [rec |-> rec,
                            res |-> SigningFailure(
                                <<"Unexpected signature lengths: R=", Len(r),
                                  ", s=", Len(s)>>,
                                elapsed, None)]
                      ELSE LET fin == FinishBenchmark(enable,
                                          RecordIf(enable, rec,
                                              "6. Extract signature components"))
                           IN  [rec |-> fin.rec,
                                res |-> FrostSigningResult(TRUE,
                                    Some(SchnorrSignature(r, s)), None, elapsed,
                                    fin.report)]
    ELSE LET fin == FinishBenchmark(enable, rec)
         IN  [rec |-> fin.rec,
              res |-> SigningFailure(<<"Protocol error: ", sr.err>>, elapsed,
                                     fin.report)]

(***************************************************************************)
(* State of a run.                                                         *)
(***************************************************************************)
Args(kind, party, sid, bench, share, rx, tx) ==
    [kind |-> kind, party_index |-> party, session_id |-> sid,
     enable_benchmark |-> bench, key_share_data |-> share,
     incoming_rx |-> rx, outgoing_tx |-> tx]

\* A run of the model that a specification does not start
AbsentArgs == Args("none", 0, "", FALSE, <<>>, "in2", "out2")

NoLocals == [key_share |-> None, engine_result |-> None, elapsed |-> None]

\* ChannelSink { sender, session_id, party_index, seq: 0 }
NewSink(a) ==
    [sender |-> a.outgoing_tx, session_id |-> a.session_id,
     party_index |-> a.party_index, seq |-> 0]

EmptyChan == [buf |-> <<>>, closed |-> FALSE]

Started(r) == pc[r] # "absent"

\* The run still holds its ends of the queues: they are dropped with the
\* adapters when the engine returns, or with the arguments at an early return
Live(r) == pc[r] \notin {"absent", "match", "done"}

\* The engine has seen a transport fault: a failed send, a stream error or the
\* end of the inbound sequence.  It then ends with Err (round_based turns each
\* into an error of the round).
SinkFailed(r) == \E i \in 1..Len(sendlog[r]) : sendlog[r][i].ret # "Ok"
StreamFailed(r) == \E i \in 1..Len(yieldlog[r]) : yieldlog[r][i].out.tag # "Ok"
StreamEnded(r) == \E i \in 1..Len(yieldlog[r]) : yieldlog[r][i].out.tag = "End"
Doomed(r) == SinkFailed(r) \/ StreamFailed(r)

\* Envelopes poll_next has taken from the queue
Taken(r) == Cardinality({i \in 1..Len(yieldlog[r]) : IsSome(yieldlog[r][i].env)})

(***************************************************************************)
(* The engine's calls on the adapters, while the runner awaits it.         *)
(***************************************************************************)
\* outgoings.send(item): ChannelSink::start_send
EngineStartSendSharedCounter(r, item) ==
    /\ pc[r] = "engine"
    /\ eng[r] = "active"
    /\ Len(sendlog[r]) < MaxSends
    /\ LET c == Unwrap(sink[r]).sender
           o == StartSendOutcome(Unwrap(sink[r]), chan[c], item)
       IN  /\ sink' = [q \in Runs |->
                  IF q = r THEN Some(o.sink)
                  ELSE IF IsSome(sink[q])
                       THEN Some([Unwrap(sink[q]) EXCEPT !.seq = o.sink.seq])
                       ELSE sink[q]]
           /\ chan' = [chan EXCEPT ![c] = o.ch]
           /\ sendlog' = [sendlog EXCEPT ![r] =
                  Append(@, [item |-> item, ret |-> o.ret, env |-> o.env])]
    /\ UNCHANGED <<cfg, pc, eng, loc, recorder, result, yieldlog, wire, decoded, aux>>

\* The call, for an engine that makes at most n of them
EngineStartSendUpTo(r, item, n) ==
    /\ pc[r] = "engine"
    /\ eng[r] = "active"
    /\ Len(sendlog[r]) < n
    /\ LET c == Unwrap(sink[r]).sender
           o == StartSendOutcome(Unwrap(sink[r]), chan[c], item)
       IN  /\ sink' = [sink EXCEPT ![r] = Some(o.sink)]
           /\ chan' = [chan EXCEPT ![c] = o.ch]
           /\ sendlog' = [sendlog EXCEPT ![r] =
                  Append(@, [item |-> item, ret |-> o.ret, env |-> o.env])]
    /\ UNCHANGED <<cfg, pc, eng, loc, recorder, result, yieldlog, wire, decoded, aux>>

EngineStartSend(r, item) == EngineStartSendUpTo(r, item, MaxSends)

\* incomings.next(): ChannelStream::poll_next.  Pending suspends the task.
\* The stream is not polled again after it ended (Stream's contract).
EnginePollNext(r) ==
    /\ pc[r] = "engine"
    /\ eng[r] = "active"
    /\ ~StreamEnded(r)
    /\ LET c == cfg[r].incoming_rx
           o == PollNextOutcome(chan[c])
       IN  /\ chan' = [chan EXCEPT ![c] = o.ch]
           /\ IF o.poll = "Pending"
              THEN /\ eng' = [eng EXCEPT ![r] = "waiting"]
                   /\ UNCHANGED yieldlog
              ELSE /\ yieldlog' = [yieldlog EXCEPT ![r] =
                          Append(@, [env |-> o.env, out |-> o.out])]
                   /\ UNCHANGED eng
    /\ UNCHANGED <<cfg, pc, sink, loc, recorder, result, sendlog, wire, decoded, aux>>

\* The receiver's waker: an envelope arrived or the queue was closed
EngineWake(r) ==
    /\ pc[r] = "engine"
    /\ eng[r] = "waiting"
    /\ LET ch == chan[cfg[r].incoming_rx] IN ch.buf # <<>> \/ ch.closed
    /\ eng' = [eng EXCEPT ![r] = "active"]
    /\ UNCHANGED <<cfg, pc, chan, sink, loc, recorder, result, sendlog, yieldlog,
                   wire, decoded, aux>>

\* A poll_* call on the sink with its outcome o: poll_ready before a send,
\* poll_flush after it, poll_close when the engine is done sending.  lastop
\* keeps the call: what it returned, whether the queue was full, how many
\* start_send calls came before it.
SinkPolled(r, op, o) ==
    /\ pc[r] = "engine"
    /\ eng[r] = "active"
    /\ sink' = [sink EXCEPT ![r] = Some(o.sink)]
    /\ chan' = [chan EXCEPT ![o.sink.sender] = o.ch]
    /\ lastop' = [lastop EXCEPT ![r] =
           Some([op |-> op, ret |-> o.ret,
                 full |-> Len(chan[o.sink.sender].buf) >= Capacity,
                 sends |-> Len(sendlog[r])])]
    /\ UNCHANGED <<cfg, pc, eng, loc, recorder, result, sendlog, yieldlog, wire,
                   decoded, entry, sig, sigbytes>>

EnginePollReady(r) ==
    /\ IsSome(sink[r])
    /\ SinkPolled(r, "poll_ready",
                  poll_ready(Unwrap(sink[r]), chan[Unwrap(sink[r]).sender]))

EnginePollFlush(r) ==
    /\ IsSome(sink[r])
    /\ SinkPolled(r, "poll_flush",
                  poll_flush(Unwrap(sink[r]), chan[Unwrap(sink[r]).sender]))

EnginePollClose(r) ==
    /\ IsSome(sink[r])
    /\ SinkPolled(r, "poll_close",
                  poll_close(Unwrap(sink[r]), chan[Unwrap(sink[r]).sender]))

\* What the engine may end with: Err at any time, Ok only if it saw no
\* transport fault
EngineOutcomes(r) ==
    {EngineErr(e) : e \in EngineErrors}
        \cup (IF Doomed(r) THEN {}
              ELSE IF cfg[r].kind = "keygen"
                   THEN {EngineOk(v) : v \in KeygenOutputs}
                   ELSE {EngineOk(v) : v \in SigningOutputs})

\* The await on the engine returns: keygen.rs 203-209, signing.rs 321-330.
\* (EngineCompleteOnTimeout: the await wrapped in a deadline that may fire
\* while the engine is suspended.)
EngineCompleteOnTimeout(r, outcome, d) ==
    /\ pc[r] = "engine"
    /\ eng[r] \in {"active", "waiting"}
    /\ outcome \in EngineOutcomes(r)
    /\ eng' = [eng EXCEPT ![r] = "finished"]
    /\ loc' = [loc EXCEPT ![r].engine_result = Some(outcome),
                          ![r].elapsed = Some(d)]
    /\ recorder' = [recorder EXCEPT ![r] =
           IF cfg[r].kind = "signing"
           THEN Some(RecordIf(cfg[r].enable_benchmark, Unwrap(@),
                              "5. MPC signing protocol"))
           ELSE @]
    /\ pc' = [pc EXCEPT ![r] = "match"]
    /\ UNCHANGED <<cfg, chan, sink, result, sendlog, yieldlog, wire, decoded, aux>>

EngineComplete(r, outcome, d) ==
    /\ pc[r] = "engine"
    /\ eng[r] = "active"
    /\ outcome \in EngineOutcomes(r)
    /\ eng' = [eng EXCEPT ![r] = "finished"]
    /\ loc' = [loc EXCEPT ![r].engine_result = Some(outcome),
                          ![r].elapsed = Some(d)]
    /\ recorder' = [recorder EXCEPT ![r] =
           IF cfg[r].kind = "signing"
           THEN Some(RecordIf(cfg[r].enable_benchmark, Unwrap(@),
                              "5. MPC signing protocol"))
           ELSE @]
    /\ pc' = [pc EXCEPT ![r] = "match"]
    /\ UNCHANGED <<cfg, chan, sink, result, sendlog, yieldlog, wire, decoded, aux>>

(***************************************************************************)
(* The transport.                                                          *)
(***************************************************************************)
\* Envelopes the transport may put into an inbound queue: a broadcast, a
\* point-to-point message and one whose payload is malformed
InboundEnvelopes ==
    {ProtocolMessage("s1", 1, None, 0, to_vec("R1").bytes, 1),
     ProtocolMessage("s1", 1, Some(0), 0, to_vec("R2").bytes, 2),
     ProtocolMessage("s1", 1, None, 0, <<123>>, 3)}

InboundOf(r) == cfg[r].incoming_rx
OutboundOf(r) == cfg[r].outgoing_tx

TransportDeliver(r, env) ==
    /\ Live(r)
    /\ LET c == InboundOf(r)
       IN  /\ ~chan[c].closed
           /\ Len(chan[c].buf) < Capacity
           /\ Len(chan[c].buf) + Taken(r) < MaxDeliver
           /\ chan' = [chan EXCEPT ![c].buf = Append(@, env)]
    /\ UNCHANGED <<cfg, pc, sink, eng, loc, recorder, result, sendlog, yieldlog,
                   wire, decoded, aux>>

\* The transport takes the head of an outbound queue
TransportTake(r) ==
    /\ Live(r)
    /\ LET c == OutboundOf(r)
       IN  /\ chan[c].buf # <<>>
           /\ chan' = [chan EXCEPT ![c].buf = Tail(@)]
    /\ UNCHANGED <<cfg, pc, sink, eng, loc, recorder, result, sendlog, yieldlog,
                   wire, decoded, aux>>

\* The other side of a queue is dropped or closes it
TransportClose(r, c) ==
    /\ Live(r)
    /\ c \in {InboundOf(r), OutboundOf(r)}
    /\ ~chan[c].closed
    /\ chan' = [chan EXCEPT ![c].closed = TRUE]
    /\ UNCHANGED <<cfg, pc, sink, eng, loc, recorder, result, sendlog, yieldlog,
                   wire, decoded, aux>>

(***************************************************************************)
(* run_frost_keygen.                                                       *)
(***************************************************************************)
\* keygen.rs 177-199: start the clock, build the adapters, start the engine
KeygenStart(r) ==
    /\ pc[r] = "start"
    /\ cfg[r].kind = "keygen"
    /\ sink' = [sink EXCEPT ![r] = Some(NewSink(cfg[r]))]
    /\ eng' = [eng EXCEPT ![r] = "active"]
    /\ pc' = [pc EXCEPT ![r] = "engine"]
    /\ UNCHANGED <<cfg, chan, loc, recorder, result, sendlog, yieldlog, wire, decoded, aux>>

\* keygen.rs 211-286: the result record
KeygenMatch(r) ==
    /\ pc[r] = "match"
    /\ cfg[r].kind = "keygen"
    /\ result' = [result EXCEPT ![r] =
           Append(@, KeygenResultOf(Unwrap(loc[r].engine_result),
                                    Unwrap(loc[r].elapsed)))]
    /\ pc' = [pc EXCEPT ![r] = "done"]
    /\ UNCHANGED <<cfg, chan, sink, eng, loc, recorder, sendlog, yieldlog, wire, decoded, aux>>

(***************************************************************************)
(* run_frost_signing_with_benchmark.                                       *)
(***************************************************************************)
\* signing.rs 210-217: start the clock, create the recorder
SigningStart(r) ==
    /\ pc[r] = "start"
    /\ cfg[r].kind = "signing"
    /\ recorder' = [recorder EXCEPT ![r] = Some(BenchNew)]
    /\ pc' = [pc EXCEPT ![r] = "deser"]
    /\ UNCHANGED <<cfg, chan, sink, eng, loc, result, sendlog, yieldlog, wire, decoded, aux>>

\* signing.rs 235-254: step 1, deserialize the key share.
\* (SigningDeserializeWithReport: the failure arm records the step and
\* attaches the report, as the engine's Err arm does.)
SigningDeserializeWithReport(r, d) ==
    /\ pc[r] = "deser"
    /\ LET ks == KeyShareFromSlice(cfg[r].key_share_data)
           rec == RecordIf(cfg[r].enable_benchmark, Unwrap(recorder[r]),
                           "1. Deserialize key_share")
       IN  IF ~ks.ok
           THEN /\ result' = [result EXCEPT ![r] =
                       Append(@, SigningFailure(
                           <<"Key share deserialization error: ", "invalid">>,
                           d, FinishBenchmark(cfg[r].enable_benchmark, rec).report))]
                /\ pc' = [pc EXCEPT ![r] = "done"]
                /\ recorder' = [recorder EXCEPT ![r] = Some(rec)]
                /\ UNCHANGED loc
           ELSE /\ loc' = [loc EXCEPT ![r].key_share = Some(ks.val)]
                /\ recorder' = [recorder EXCEPT ![r] = Some(rec)]
                /\ pc' = [pc EXCEPT ![r] = "setup"]
                /\ UNCHANGED result
    /\ UNCHANGED <<cfg, chan, sink, eng, sendlog, yieldlog, wire, decoded, aux>>

SigningDeserialize(r, d) ==
    /\ pc[r] = "deser"
    /\ LET ks == KeyShareFromSlice(cfg[r].key_share_data)
       IN  IF ~ks.ok
           THEN /\ result' = [result EXCEPT ![r] =
                       Append(@, SigningFailure(
                           <<"Key share deserialization error: ", "invalid">>,
                           d, None))]
                /\ pc' = [pc EXCEPT ![r] = "done"]
                /\ UNCHANGED <<loc, recorder>>
           ELSE /\ loc' = [loc EXCEPT ![r].key_share = Some(ks.val)]
                /\ recorder' = [recorder EXCEPT ![r] =
                       Some(RecordIf(cfg[r].enable_benchmark, Unwrap(@),
                                     "1. Deserialize key_share"))]
                /\ pc' = [pc EXCEPT ![r] = "setup"]
                /\ UNCHANGED result
    /\ UNCHANGED <<cfg, chan, sink, eng, sendlog, yieldlog, wire, decoded, aux>>

\* signing.rs 264-287: step 2, build the adapters and the party
SigningSetup(r) ==
    /\ pc[r] = "setup"
    /\ sink' = [sink EXCEPT ![r] = Some(NewSink(cfg[r]))]
    /\ recorder' = [recorder EXCEPT ![r] =
           Some(RecordIf(cfg[r].enable_benchmark, Unwrap(@),
                         "2. Protocol setup (channels, party)"))]
    /\ pc' = [pc EXCEPT ![r] = "builder"]
    /\ UNCHANGED <<cfg, chan, eng, loc, result, sendlog, yieldlog, wire, decoded, aux>>

\* signing.rs 289-298: step 3, the signing builder
SigningBuilder(r) ==
    /\ pc[r] = "builder"
    /\ recorder' = [recorder EXCEPT ![r] =
           Some(RecordIf(cfg[r].enable_benchmark, Unwrap(@),
                         "3. Create signing builder"))]
    /\ pc' = [pc EXCEPT ![r] = "tweak"]
    /\ UNCHANGED <<cfg, chan, sink, eng, loc, result, sendlog, yieldlog, wire, decoded, aux>>

\* signing.rs 300-319: step 4, the taproot tweak; then the engine starts (323).
\* (SigningTweakNoReturn: the failure arm builds its record and goes on.)
SigningTweakNoReturn(r, d) ==
    /\ pc[r] = "tweak"
    /\ result' = [result EXCEPT ![r] =
           IF ~Unwrap(loc[r].key_share).tweakable
           THEN Append(@, SigningFailure(
                    <<"Failed to set taproot tweak: ", "InvalidTweak">>, d, None))
           ELSE @]
    /\ recorder' = [recorder EXCEPT ![r] =
           Some(RecordIf(cfg[r].enable_benchmark, Unwrap(@),
                         "4. Set taproot tweak (BIP-341)"))]
    /\ eng' = [eng EXCEPT ![r] = "active"]
    /\ pc' = [pc EXCEPT ![r] = "engine"]
    /\ UNCHANGED <<cfg, chan, sink, loc, sendlog, yieldlog, wire, decoded, aux>>

SigningTweak(r, d) ==
    /\ pc[r] = "tweak"
    /\ IF ~Unwrap(loc[r].key_share).tweakable
       THEN /\ result' = [result EXCEPT ![r] =
                   Append(@, SigningFailure(
                       <<"Failed to set taproot tweak: ", "InvalidTweak">>,
                       d, None))]
            /\ pc' = [pc EXCEPT ![r] = "done"]
            /\ UNCHANGED <<recorder, eng>>
       ELSE /\ recorder' = [recorder EXCEPT ![r] =
                   Some(RecordIf(cfg[r].enable_benchmark, Unwrap(@),
                                 "4. Set taproot tweak (BIP-341)"))]
            /\ eng' = [eng EXCEPT ![r] = "active"]
            /\ pc' = [pc EXCEPT ![r] = "engine"]
            /\ UNCHANGED result
    /\ UNCHANGED <<cfg, chan, sink, loc, sendlog, yieldlog, wire, decoded, aux>>

\* signing.rs 332-444: step 6 and the result record
SigningMatch(r) ==
    /\ pc[r] = "match"
    /\ cfg[r].kind = "signing"
    /\ LET o == SigningResultOf(Unwrap(loc[r].engine_result), Unwrap(loc[r].elapsed),
                                cfg[r].enable_benchmark, Unwrap(recorder[r]))
       IN  /\ result' = [result EXCEPT ![r] = Append(@, o.res)]
           /\ recorder' = [recorder EXCEPT ![r] = Some(o.rec)]
    /\ pc' = [pc EXCEPT ![r] = "done"]
    /\ UNCHANGED <<cfg, chan, sink, eng, loc, sendlog, yieldlog, wire, decoded, aux>>

(***************************************************************************)
(* Spec: one session run, keygen or signing, with its engine and transport.*)
(***************************************************************************)
RunArgs ==
    {Args("keygen", 0, "s1", FALSE, <<>>, "in1", "out1")}
        \cup {Args("signing", 0, "s1", b, k, "in1", "out1") :
                  b \in BOOLEAN, k \in KeyShareBlobs}

\* Items the engine of a run sends
RunItems ==
    {Outgoing(AllParties, "R1"), Outgoing(OneParty(1), "R2"),
     Outgoing(AllParties, "Unser")}

InitRest ==
    /\ chan = [c \in Chans |-> EmptyChan]
    /\ sink = [r \in Runs |-> None]
    /\ eng = [r \in Runs |-> "idle"]
    /\ loc = [r \in Runs |-> NoLocals]
    /\ recorder = [r \in Runs |-> None]
    /\ result = [r \in Runs |-> <<>>]
    /\ sendlog = [r \in Runs |-> <<>>]
    /\ yieldlog = [r \in Runs |-> <<>>]
    /\ wire = None
    /\ decoded = None
    /\ lastop = [r \in Runs |-> None]
    /\ sig = None
    /\ sigbytes = None

\* The function of the crate a run was started through
EntryOf(a) ==
    IF a.kind = "keygen" THEN "run_frost_keygen"
    ELSE IF a.kind = "signing" THEN "run_frost_signing_with_benchmark"
    ELSE "none"

DirectEntry == [r \in Runs |-> EntryOf(cfg[r])]

Init ==
    /\ \E a \in RunArgs : cfg = [r \in Runs |-> IF r = 1 THEN a ELSE AbsentArgs]
    /\ pc = [r \in Runs |-> IF r = 1 THEN "start" ELSE "absent"]
    /\ entry = DirectEntry
    /\ InitRest

RunnerStep(r) ==
    \/ KeygenStart(r)
    \/ KeygenMatch(r)
    \/ SigningStart(r)
    \/ \E d \in Durations : SigningDeserialize(r, d)
    \/ SigningSetup(r)
    \/ SigningBuilder(r)
    \/ \E d \in Durations : SigningTweak(r, d)
    \/ SigningMatch(r)

EngineStep(r) ==
    \/ \E item \in RunItems : EngineStartSend(r, item)
    \/ EnginePollNext(r)
    \/ EngineWake(r)
    \/ \E o \in EngineOutcomes(r), d \in Durations : EngineComplete(r, o, d)

TransportStep(r) ==
    \/ \E env \in InboundEnvelopes : TransportDeliver(r, env)
    \/ TransportTake(r)
    \/ \E c \in Chans : TransportClose(r, c)

Next == \E r \in Runs : RunnerStep(r) \/ EngineStep(r) \/ TransportStep(r)

Spec == Init /\ [][Next]_vars

(***************************************************************************)
(* SinkSpec: two keygen runs in their engine phase, sending.  The second   *)
(* run has any session id and party index, and its own outbound queue or   *)
(* the first run's.                                                        *)
(***************************************************************************)
SinkItems == {Outgoing(AllParties, "R1"), Outgoing(AllParties, "Unser")}

SinkInit ==
    /\ \E sid \in Sessions, p \in Parties, out \in {"out1", "out2"} :
           cfg = [r \in Runs |->
                     IF r = 1
                     THEN Args("keygen", 0, "s1", FALSE, <<>>, "in1", "out1")
                     ELSE Args("keygen", p, sid, FALSE, <<>>, "in2", out)]
    /\ pc = [r \in Runs |-> "start"]
    /\ entry = DirectEntry
    /\ InitRest

SinkNext ==
    \E r \in Runs :
        \/ KeygenStart(r)
        \/ \E item \in SinkItems : EngineStartSend(r, item)
        \/ TransportTake(r)
        \/ TransportClose(r, OutboundOf(r))

SinkSpec == SinkInit /\ [][SinkNext]_vars

(***************************************************************************)
(* EnvelopeSpec: the same two sending runs, the engine handing over a      *)
(* broadcast message and a message addressed to one party.                 *)
(***************************************************************************)
EnvelopeItems == {Outgoing(AllParties, "R1"), Outgoing(OneParty(1), "R2")}

EnvelopeNext ==
    \E r \in Runs :
        \/ KeygenStart(r)
        \/ \E item \in EnvelopeItems : EngineStartSend(r, item)
        \/ TransportTake(r)
        \/ TransportClose(r, OutboundOf(r))

EnvelopeSpec == SinkInit /\ [][EnvelopeNext]_vars

(***************************************************************************)
(* CodecSpec: an envelope is serialized, the text is deserialized.         *)
(***************************************************************************)
MaxInt == 2147483647

CodecEnvelopes ==
    {ProtocolMessage(sid, snd, rcp, rnd, pl, sq) :
         sid \in {"", "s1", "test-session"},
         snd \in {0, 1, U16Max},
         rcp \in {None, Some(0), Some(U16Max)},
         rnd \in {0, 1},
         pl \in {<<>>, <<1, 2, 3>>, <<U8Max>>, to_vec("R1").bytes},
         sq \in {0, 1, MaxInt}}

Serialize(msg) ==
    /\ wire = None
    /\ wire' = Some([msg |-> msg, text |-> to_string(msg)])
    /\ decoded' = None
    /\ UNCHANGED <<cfg, pc, chan, sink, eng, loc, recorder, result, sendlog,
                   yieldlog, aux>>

Deserialize ==
    /\ IsSome(wire)
    /\ decoded = None
    /\ decoded' = Some(from_str(Unwrap(wire).text))
    /\ UNCHANGED <<cfg, pc, chan, sink, eng, loc, recorder, result, sendlog,
                   yieldlog, wire, aux>>

CodecInit ==
    /\ cfg = [r \in Runs |-> AbsentArgs]
    /\ pc = [r \in Runs |-> "absent"]
    /\ entry = DirectEntry
    /\ InitRest

CodecNext == (\E msg \in CodecEnvelopes : Serialize(msg)) \/ Deserialize

CodecSpec == CodecInit /\ [][CodecNext]_vars

(***************************************************************************)
(* AdapterSpec: one keygen run in its engine phase, the engine calling     *)
(* every operation of the two adapters; the inbound queue holds up to      *)
(* InboxCapacity envelopes, MaxInbound are enqueued in all.                *)
(***************************************************************************)
MaxInbound == 2
InboxCapacity == 2

\* Envelopes of party 1, the second with a payload that does not deserialize
AdapterEnvelopes ==
    {ProtocolMessage("s1", 1, None, 0, to_vec("R1").bytes, 1),
     ProtocolMessage("s1", 1, None, 0, <<123>>, 2)}

\* A peer's envelope arrives in the inbound queue
PeerEnqueue(r, env) ==
    /\ Live(r)
    /\ LET c == InboundOf(r)
       IN  /\ ~chan[c].closed
           /\ Len(chan[c].buf) < InboxCapacity
           /\ Len(chan[c].buf) + Taken(r) < MaxInbound
           /\ chan' = [chan EXCEPT ![c].buf = Append(@, env)]
    /\ UNCHANGED <<cfg, pc, sink, eng, loc, recorder, result, sendlog, yieldlog,
                   wire, decoded, aux>>

AdapterInit ==
    /\ cfg = [r \in Runs |->
                 IF r = 1 THEN Args("keygen", 0, "s1", FALSE, <<>>, "in1", "out1")
                 ELSE AbsentArgs]
    /\ pc = [r \in Runs |-> IF r = 1 THEN "start" ELSE "absent"]
    /\ entry = DirectEntry
    /\ InitRest

AdapterNext ==
    \E r \in Runs :
        \/ KeygenStart(r)
        \/ EnginePollReady(r)
        \/ EngineStartSend(r, Outgoing(AllParties, "R1"))
        \/ EnginePollFlush(r)
        \/ EnginePollClose(r)
        \/ EnginePollNext(r)
        \/ EngineWake(r)
        \/ \E env \in AdapterEnvelopes : PeerEnqueue(r, env)
        \/ TransportTake(r)
        \/ \E c \in Chans : TransportClose(r, c)

AdapterSpec == AdapterInit /\ [][AdapterNext]_vars

\* The receiver's waker runs when the queue has an envelope or is closed
AdapterFairSpec ==
    /\ AdapterInit
    /\ [][AdapterNext]_vars
    /\ \A r \in Runs : WF_vars(EngineWake(r))

(***************************************************************************)
(* InboundSpec: one keygen run of session "s1" and party 0 whose inbound   *)
(* queue receives envelopes of another session, envelopes addressed to     *)
(* another party, an envelope of the run's own party, envelopes whose seq  *)
(* repeats or skips, and an envelope whose payload does not deserialize.   *)
(***************************************************************************)
InboundEnvelopesAnyHeader ==
    {ProtocolMessage("s2", 1, None, 0, to_vec("R1").bytes, 1),
     ProtocolMessage("s1", 1, Some(1), 0, to_vec("R2").bytes, 1),
     ProtocolMessage("s1", 0, None, 0, to_vec("R1").bytes, 7),
     ProtocolMessage("s2", 1, Some(1), 0, <<123>>, 7)}

InboundNext ==
    \E r \in Runs :
        \/ KeygenStart(r)
        \/ EnginePollNext(r)
        \/ EngineWake(r)
        \/ \E env \in InboundEnvelopesAnyHeader : PeerEnqueue(r, env)
        \/ TransportClose(r, InboundOf(r))

InboundSpec == AdapterInit /\ [][InboundNext]_vars

(***************************************************************************)
(* CounterSpec: one keygen run whose engine calls start_send up to         *)
(* MaxCalls times, with messages that serialize and messages that do not,  *)
(* into a queue that the transport empties or closes.                      *)
(***************************************************************************)
MaxCalls == 3      \* start_send calls of the run

CounterItems == SinkItems \cup EnvelopeItems

CounterNext ==
    \E r \in Runs :
        \/ KeygenStart(r)
        \/ \E item \in CounterItems : EngineStartSendUpTo(r, item, MaxCalls)
        \/ TransportTake(r)
        \/ TransportClose(r, OutboundOf(r))

CounterSpec == AdapterInit /\ [][CounterNext]_vars

(***************************************************************************)
(* RelaySpec: two keygen runs, parties 0 and 1, each sending into its own   *)
(* outbound queue; a FIFO, exactly-once relay moves the head of either     *)
(* outbound queue to the end of the inbound queue of run 1, whose engine   *)
(* receives.                                                               *)
(***************************************************************************)
Receiver == 1

RelayItems == {Outgoing(AllParties, "R1"), Outgoing(OneParty(0), "R2")}

TransportRelay(from, to) ==
    /\ Live(from)
    /\ Live(to)
    /\ LET o == OutboundOf(from)
           i == InboundOf(to)
       IN  /\ chan[o].buf # <<>>
           /\ ~chan[i].closed
           /\ Len(chan[i].buf) < InboxCapacity
           /\ chan' = [chan EXCEPT ![o].buf = Tail(@),
                                   ![i].buf = Append(@, Head(chan[o].buf))]
    /\ UNCHANGED <<cfg, pc, sink, eng, loc, recorder, result, sendlog, yieldlog,
                   wire, decoded, aux>>

RelayInit ==
    /\ cfg = [r \in Runs |->
                 IF r = 1 THEN Args("keygen", 0, "s1", FALSE, <<>>, "in1", "out1")
                 ELSE Args("keygen", 1, "s1", FALSE, <<>>, "in2", "out2")]
    /\ pc = [r \in Runs |-> "start"]
    /\ entry = DirectEntry
    /\ InitRest

RelayNext ==
    \/ \E r \in Runs :
           \/ KeygenStart(r)
           \/ \E item \in RelayItems : EngineStartSend(r, item)
           \/ TransportRelay(r, Receiver)
    \/ EnginePollNext(Receiver)
    \/ EngineWake(Receiver)

RelaySpec == RelayInit /\ [][RelayNext]_vars

(***************************************************************************)
(* SharedSpec: two keygen runs that differ in session id or party index,   *)
(* sending concurrently, the second into its own outbound queue or into    *)
(* the first run's; the relay moves what they enqueued, in queue order, to *)
(* the inbound queue of run 1, which is left to fill.                      *)
(***************************************************************************)
SharedInit ==
    /\ \E sid \in Sessions, p \in Parties, out \in {"out1", "out2"} :
           /\ <<sid, p>> # <<"s1", 0>>
           /\ cfg = [r \in Runs |->
                     IF r = 1
                     THEN Args("keygen", 0, "s1", FALSE, <<>>, "in1", "out1")
                     ELSE Args("keygen", p, sid, FALSE, <<>>, "in2", out)]
    /\ pc = [r \in Runs |-> "start"]
    /\ entry = DirectEntry
    /\ InitRest

SharedNext ==
    \E r \in Runs :
        \/ KeygenStart(r)
        \/ \E item \in SinkItems : EngineStartSend(r, item)
        \/ TransportRelay(r, Receiver)

SharedSpec == SharedInit /\ [][SharedNext]_vars

(***************************************************************************)
(* EntrySpec: the same signing run started through run_frost_signing (run  *)
(* 1) and through run_frost_signing_with_benchmark with enable_benchmark = *)
(* true (run 2), each with its own queues.  The engines only return here:  *)
(* the adapters never read enable_benchmark.                               *)
(***************************************************************************)
\* signing.rs 186-195: the arguments run_frost_signing passes on
run_frost_signingNoBenchmark(party, sid, share, rx, tx) ==
    Args("signing", party, sid, FALSE, share, rx, tx)

run_frost_signing(party, sid, share, rx, tx) ==
    Args("signing", party, sid, TRUE, share, rx, tx)

EntryInit ==
    /\ \E k \in KeyShareBlobs :
           cfg = [r \in Runs |->
                     IF r = 1
                     THEN run_frost_signing(0, "s1", k, "in1", "out1")
                     ELSE Args("signing", 0, "s1", TRUE, k, "in2", "out2")]
    /\ pc = [r \in Runs |-> "start"]
    /\ entry = [r \in Runs |->
                   IF r = 1 THEN "run_frost_signing"
                   ELSE "run_frost_signing_with_benchmark"]
    /\ InitRest

EntryNext ==
    \E r \in Runs :
        \/ SigningStart(r)
        \/ \E d \in Durations : SigningDeserialize(r, d)
        \/ SigningSetup(r)
        \/ SigningBuilder(r)
        \/ \E d \in Durations : SigningTweak(r, d)
        \/ \E o \in EngineOutcomes(r), d \in Durations : EngineComplete(r, o, d)
        \/ SigningMatch(r)

EntrySpec == EntryInit /\ [][EntryNext]_vars

(***************************************************************************)
(* SigSpec: a SchnorrSignature value is built (its fields are public, any   *)
(* two byte vectors) and to_bytes is called on it.                         *)
(***************************************************************************)
Filled(b, n) == [i \in 1..n |-> b]

SigComponents ==
    {Filled(1, XOnlyLen), Filled(2, XOnlyLen), Body(7), Body(9),
     Filled(1, XOnlyLen - 1), Compressed(2, 7), <<>>, <<7>>}

MakeSignature(r, s) ==
    /\ sig = None
    /\ sig' = Some(SchnorrSignature(r, s))
    /\ UNCHANGED <<cfg, pc, chan, sink, eng, loc, recorder, result, sendlog,
                   yieldlog, wire, decoded, entry, lastop, sigbytes>>

ToBytes ==
    /\ IsSome(sig)
    /\ sigbytes = None
    /\ sigbytes' = Some(to_bytes(Unwrap(sig)))
    /\ UNCHANGED <<cfg, pc, chan, sink, eng, loc, recorder, result, sendlog,
                   yieldlog, wire, decoded, entry, lastop, sig>>

SigNext ==
    (\E r \in SigComponents, s \in SigComponents : MakeSignature(r, s)) \/ ToBytes

SigSpec == CodecInit /\ [][SigNext]_vars

\* The same run under the scheduling the code has: the runner's own steps
\* and a running engine's steps are taken; nothing obliges the transport to
\* deliver an envelope or to close a queue
FairSpec ==
    /\ Init
    /\ [][Next]_vars
    /\ \A r \in Runs : WF_vars(RunnerStep(r)) /\ WF_vars(EngineStep(r))

(***************************************************************************)
(* Properties.                                                             *)
(***************************************************************************)
\* The envelopes a sink enqueued, in order
RECURSIVE EmittedOf(_)
EmittedOf(log) ==
    IF log = <<>> THEN <<>>
    ELSE IF Head(log).ret = "Ok"
         THEN <<Unwrap(Head(log).env)>> \o EmittedOf(Tail(log))
         ELSE EmittedOf(Tail(log))

Emitted(r) == EmittedOf(sendlog[r])

TheResult(r) == result[r][1]
EngineResult(r) == Unwrap(loc[r].engine_result)

\* C1 (as claimed): the envelopes one sink emits carry seq 1, 2, 3, ... in send
\* order, with no gap: the i-th envelope enqueued has seq i.
C1_EmittedSeqGapFree ==
    \A r \in Runs : \A i \in 1..Len(Emitted(r)) : Emitted(r)[i].seq = i

(***************************************************************************)
(* C3.  Failure paths of a run.                                            *)
(***************************************************************************)
MalformedKeyShare(r) ==
    cfg[r].kind = "signing" /\ ~KeyShareFromSlice(cfg[r].key_share_data).ok

TweakFailure(r) ==
    /\ cfg[r].kind = "signing"
    /\ KeyShareFromSlice(cfg[r].key_share_data).ok
    /\ ~KeyShareFromSlice(cfg[r].key_share_data).val.tweakable

EngineAbort(r) == IsSome(loc[r].engine_result) /\ ~EngineResult(r).ok

BadLength(bytes) == Len(bytes) # 32 /\ Len(bytes) # 33

BadComponentLength(r) ==
    /\ IsSome(loc[r].engine_result)
    /\ EngineResult(r).ok
    /\ IF cfg[r].kind = "keygen"
       THEN BadLength(EngineResult(r).val.pk)
       ELSE BadLength(EngineResult(r).val.r) \/ Len(EngineResult(r).val.z) # 32

KeyShareUnserializable(r) ==
    /\ cfg[r].kind = "keygen"
    /\ IsSome(loc[r].engine_result)
    /\ EngineResult(r).ok
    /\ ~EngineResult(r).val.serializable

\* A malformed inbound payload, the inbound sequence ended, a send failed
\* (queue full, queue closed, message not serializable)
TransportFault(r) == Doomed(r)

FailurePath(r) ==
    \/ TransportFault(r)
    \/ MalformedKeyShare(r)
    \/ TweakFailure(r)
    \/ EngineAbort(r)
    \/ BadComponentLength(r)
    \/ KeyShareUnserializable(r)

IsFailureRecord(res) ==
    /\ res.success = FALSE
    /\ IsSome(res.error)
    /\ Unwrap(res.error) # <<>>
    /\ res.duration_secs \in Durations

\* C3: a run that ended has returned a result record, and if it went through a
\* failure path (transport fault seen by the engine, malformed key share, tweak
\* failure, engine abort, component of unexpected length) the record has
\* success = false, a non-empty error and a duration.
C3_TerminalResultTotality ==
    \A r \in Runs :
        pc[r] = "done" =>
            /\ Len(result[r]) >= 1
            /\ FailurePath(r) => IsFailureRecord(TheResult(r))

\* C3 witness: a run ended after its engine saw a malformed inbound payload and
\* a failed send, and returned a failure record
C3_Witness ==
    \E r \in Runs :
        /\ pc[r] = "done"
        /\ SinkFailed(r)
        /\ \E i \in 1..Len(yieldlog[r]) : yieldlog[r][i].out.tag = "Err"
        /\ IsFailureRecord(TheResult(r))

(***************************************************************************)
(* C4.  The benchmark report on results of a signing run.                  *)
(***************************************************************************)
\* C4 (as claimed): with benchmarking enabled, every result of a signing run
\* whose key share deserialized carries a benchmark report.
C4_ReportOnEveryResult ==
    \A r \in Runs :
        (/\ pc[r] = "done"
         /\ cfg[r].kind = "signing"
         /\ cfg[r].enable_benchmark
         /\ ~MalformedKeyShare(r))
            => IsSome(TheResult(r).benchmark)

(***************************************************************************)
(* C7.  Shape of the result records.                                       *)
(***************************************************************************)
KeygenShape(res) ==
    /\ res.success <=>
           (IsSome(res.key_share_data) /\ IsSome(res.public_key) /\ res.error = None)
    /\ res.success => Len(Unwrap(res.public_key)) = 32
    /\ ~res.success => (res.key_share_data = None /\ res.public_key = None)

SigningShape(res) ==
    /\ res.success <=> (IsSome(res.signature) /\ res.error = None)
    /\ res.success =>
           /\ Len(Unwrap(res.signature).r) = 32
           /\ Len(Unwrap(res.signature).s) = 32
    /\ ~res.success => res.signature = None

\* C7: every result record returned has the shape of its kind: success exactly
\* when the payload is present and the error absent, 32-byte components on
\* success, no payload on failure.
C7_ResultShape ==
    \A r \in Runs : \A i \in 1..Len(result[r]) :
        IF cfg[r].kind = "keygen"
        THEN KeygenShape(result[r][i])
        ELSE SigningShape(result[r][i])

\* C7 witness: a signing run returned a success whose engine gave a compressed R
C7_Witness ==
    \E r \in Runs :
        /\ pc[r] = "done"
        /\ cfg[r].kind = "signing"
        /\ TheResult(r).success
        /\ Len(EngineResult(r).val.r) = 33

(***************************************************************************)
(* C8.  Normalization of the public key and of R.                          *)
(***************************************************************************)
\* out is the 32 bytes that follow the first byte of in
Trailing32(in, out) == Len(out) = 32 /\ \A i \in 1..32 : out[i] = in[i + 1]

NormalizedAs(in, out, res, payloadAbsent, errorText) ==
    /\ Len(in) = 33 => (res.success /\ Trailing32(in, out))
    /\ Len(in) = 32 => (res.success /\ out = in)
    /\ BadLength(in) =>
           /\ ~res.success
           /\ payloadAbsent
           /\ res.error = Some(<<errorText, Len(in)>>)

\* C8: when the engine succeeded (and nothing else failed), the public key of a
\* keygen result and the r of a signing result are the engine's bytes
\* normalized: the trailing 32 of 33, a 32-byte input unchanged; any other
\* length gives a failure record naming that length and no payload.
C8_Normalization ==
    \A r \in Runs :
        (pc[r] = "done" /\ IsSome(loc[r].engine_result) /\ EngineResult(r).ok) =>
            LET res == TheResult(r)
                v == EngineResult(r).val
            IN  IF cfg[r].kind = "keygen"
                THEN v.serializable =>
                         NormalizedAs(v.pk,
                             IF res.success THEN Unwrap(res.public_key) ELSE <<>>,
                             res,
                             res.public_key = None /\ res.key_share_data = None,
                             "Unexpected public key length: ")
                ELSE Len(v.z) = 32 =>
                         NormalizedAs(v.r,
                             IF res.success THEN Unwrap(res.signature).r ELSE <<>>,
                             res, res.signature = None,
                             "Unexpected R point length: ")

\* C8 witness: a keygen run returned the trailing 32 bytes of a 33-byte key
C8_Witness ==
    \E r \in Runs :
        /\ pc[r] = "done"
        /\ cfg[r].kind = "keygen"
        /\ TheResult(r).success
        /\ Len(EngineResult(r).val.pk) = 33
        /\ Trailing32(EngineResult(r).val.pk, Unwrap(TheResult(r).public_key))

Suspended(r) ==
    /\ pc[r] = "engine"
    /\ eng[r] = "waiting"
    /\ chan[InboundOf(r)].buf = <<>>
    /\ ~chan[InboundOf(r)].closed

SamePair(e1, e2) == e1.session_id = e2.session_id /\ e1.sender = e2.sender

\* C2 (as claimed): of all envelopes ever enqueued with one (session_id,
\* sender) pair no two carry the same seq, and those of one sink have
\* strictly increasing seq.
C2_SeqUniquePerPair ==
    \A r1 \in Runs, r2 \in Runs :
        \A i \in 1..Len(Emitted(r1)), j \in 1..Len(Emitted(r2)) :
            /\ (r1 = r2 /\ i < j) => Emitted(r1)[i].seq < Emitted(r2)[j].seq
            /\ (r1 # r2 /\ SamePair(Emitted(r1)[i], Emitted(r2)[j]))
                   => Emitted(r1)[i].seq # Emitted(r2)[j].seq

\* C2 (amended): per sink (one per run), the envelopes it enqueued carry the
\* run's session id and party index and strictly increasing seq, none used
\* twice; the counter is 0 when the run builds the sink and changes only in a
\* start_send call, which adds one to it.
C2_SeqIncreasingPerSink ==
    /\ [](\A r \in Runs :
              \A i \in 1..Len(Emitted(r)), j \in 1..Len(Emitted(r)) :
                  /\ Emitted(r)[i].session_id = cfg[r].session_id
                  /\ Emitted(r)[i].sender = cfg[r].party_index
                  /\ i < j => Emitted(r)[i].seq < Emitted(r)[j].seq)
    /\ [][\A r \in Runs :
              /\ (sink[r] = None /\ sink'[r] # None) => Unwrap(sink'[r]).seq = 0
              /\ (sink[r] # None /\ sink'[r] # sink[r]) =>
                     /\ Len(sendlog'[r]) = Len(sendlog[r]) + 1
                     /\ Unwrap(sink'[r]) =
                            [Unwrap(sink[r]) EXCEPT !.seq = @ + 1]
              /\ (Len(sendlog'[r]) # Len(sendlog[r])) =>
                     Unwrap(sink'[r]).seq = Unwrap(sink[r]).seq + 1]_vars

\* C2 witness: two runs with the same session id and party index have both
\* enqueued, one of them twice
C2_Witness ==
    \E r1 \in Runs, r2 \in Runs :
        /\ r1 # r2
        /\ cfg[r1].session_id = cfg[r2].session_id
        /\ cfg[r1].party_index = cfg[r2].party_index
        /\ Len(Emitted(r1)) = 2
        /\ Len(Emitted(r2)) >= 1

(***************************************************************************)
(* C10.  Envelope round trip.                                              *)
(***************************************************************************)
\* C10: the envelope deserialized from the text of an envelope equals it field
\* for field.
C10_EnvelopeRoundTrip ==
    IsSome(decoded) =>
        LET d == Unwrap(decoded)
            m == Unwrap(wire).msg
        IN  /\ d.ok
            /\ d.val.session_id = m.session_id
            /\ d.val.sender = m.sender
            /\ d.val.recipient = m.recipient
            /\ d.val.round = m.round
            /\ d.val.payload = m.payload
            /\ d.val.seq = m.seq

\* C10 witness: an envelope with recipient absent and a three-byte payload
\* came back from its text
C10_Witness ==
    /\ IsSome(decoded)
    /\ Unwrap(decoded).ok
    /\ Unwrap(wire).msg.recipient = None
    /\ Unwrap(decoded).val.payload = <<1, 2, 3>>

SameInputs(r1, r2) ==
    /\ cfg[r1].kind = cfg[r2].kind
    /\ cfg[r1].party_index = cfg[r2].party_index
    /\ cfg[r1].session_id = cfg[r2].session_id
    /\ cfg[r1].key_share_data = cfg[r2].key_share_data

\* C12: a run started through run_frost_signing has benchmarking enabled,
\* whatever the caller does; and when it and a run of
\* run_frost_signing_with_benchmark with enable_benchmark = true on the same
\* inputs have ended with the same engine result and the same measured
\* duration, the two result records are equal.
C12_SigningEntryIsBenchmarked ==
    \A r1 \in Runs :
        entry[r1] = "run_frost_signing" =>
            /\ cfg[r1].kind = "signing"
            /\ cfg[r1].enable_benchmark
            /\ \A r2 \in Runs :
                   (/\ entry[r2] = "run_frost_signing_with_benchmark"
                    /\ cfg[r2].enable_benchmark
                    /\ SameInputs(r1, r2)
                    /\ pc[r1] = "done"
                    /\ pc[r2] = "done"
                    /\ loc[r1].engine_result = loc[r2].engine_result
                    /\ TheResult(r1).duration_secs = TheResult(r2).duration_secs)
                       => TheResult(r1) = TheResult(r2)

\* C12 witness: both runs ended with the same success, a report attached
C12_Witness ==
    /\ entry[1] = "run_frost_signing"
    /\ entry[2] = "run_frost_signing_with_benchmark"
    /\ pc[1] = "done"
    /\ pc[2] = "done"
    /\ TheResult(1).success
    /\ IsSome(TheResult(1).benchmark)
    /\ TheResult(1) = TheResult(2)

(***************************************************************************)
(* C13.  start_send does not block.                                        *)
(***************************************************************************)
\* C13: every start_send call returns at once, the engine still running; if the
\* outbound queue is closed or full or the message does not serialize it
\* returns an error (InvalidData for the message, else the queue's), no
\* envelope is enqueued and no queue changes; otherwise it returns Ok and the
\* envelope, carrying the serialized message, is the new last element of the
\* queue.
C13_NonBlockingPublish ==
    [][\A r \in Runs :
           Len(sendlog'[r]) = Len(sendlog[r]) + 1 =>
               LET e == Last(sendlog'[r])
                   c == OutboundOf(r)
                   ser == to_vec(e.item.msg)
                   full == Len(chan[c].buf) >= Capacity
               IN  /\ eng'[r] = "active"
                   /\ pc'[r] = pc[r]
                   /\ (chan[c].closed \/ full \/ ~ser.ok) =>
                          /\ e.ret # "Ok"
                          /\ e.env = None
                          /\ chan' = chan
                   /\ ~ser.ok => e.ret = "InvalidData"
                   /\ (ser.ok /\ chan[c].closed) => e.ret = "Closed"
                   /\ (ser.ok /\ ~chan[c].closed /\ full) => e.ret = "Full"
                   /\ (~chan[c].closed /\ ~full /\ ser.ok) =>
                          /\ e.ret = "Ok"
                          /\ IsSome(e.env)
                          /\ Unwrap(e.env).payload = ser.bytes
                          /\ chan'[c] = [chan[c] EXCEPT
                                            !.buf = Append(@, Unwrap(e.env))]]_vars

\* C13 witness: one sink had a send accepted, one refused by a full queue and
\* the other run one refused by a closed queue
C13_Witness ==
    \E r1 \in Runs, r2 \in Runs :
        /\ \E i \in 1..Len(sendlog[r1]) : sendlog[r1][i].ret = "Ok"
        /\ \E i \in 1..Len(sendlog[r1]) : sendlog[r1][i].ret = "Full"
        /\ \E i \in 1..Len(sendlog[r2]) : sendlog[r2][i].ret = "Closed"

(***************************************************************************)
(* C14.  poll_next after a decode failure.                                 *)
(***************************************************************************)
\* C14 (as claimed): once poll_next has yielded the error of an envelope whose
\* payload does not deserialize, it yields no protocol message any more.
C14_NoMessageAfterDecodeError ==
    \A r \in Runs : \A i \in 1..Len(yieldlog[r]), j \in 1..Len(yieldlog[r]) :
        (i < j /\ yieldlog[r][i].out.tag = "Err") => yieldlog[r][j].out.tag # "Ok"

(***************************************************************************)
(* C16.  The end of the inbound sequence.                                  *)
(***************************************************************************)
\* A step in which the engine's poll_next call returned
Polled(r) ==
    /\ pc[r] = "engine"
    /\ eng[r] = "active"
    /\ yieldlog'[r] # yieldlog[r] \/ eng'[r] = "waiting"

\* C16: poll_next returns the end of the sequence exactly when the inbound
\* queue is closed and empty: with an envelope pending, closed or not, it takes
\* the head of the queue and yields that; open and empty it yields nothing;
\* the queue loses an envelope only to a poll_next that yields it; and once the
\* end was signalled the queue is closed and empty.
C16_EndWhenClosedAndEmpty ==
    /\ [](\A r \in Runs :
              StreamEnded(r) =>
                  chan[InboundOf(r)].closed /\ chan[InboundOf(r)].buf = <<>>)
    /\ [][\A r \in Runs :
              LET ch == chan[InboundOf(r)]
                  y == Last(yieldlog'[r])
              IN  /\ Polled(r) =>
                         /\ ch.buf # <<>> =>
                                /\ Len(yieldlog'[r]) = Len(yieldlog[r]) + 1
                                /\ y.out.tag # "End"
                                /\ y.env = Some(Head(ch.buf))
                                /\ chan'[InboundOf(r)].buf = Tail(ch.buf)
                         /\ (ch.buf = <<>> /\ ch.closed) =>
                                /\ Len(yieldlog'[r]) = Len(yieldlog[r]) + 1
                                /\ y.out.tag = "End"
                         /\ (ch.buf = <<>> /\ ~ch.closed) =>
                                yieldlog'[r] = yieldlog[r]
                  /\ (Started(r) /\ Len(chan'[InboundOf(r)].buf) < Len(ch.buf)) =>
                         /\ Len(yieldlog'[r]) = Len(yieldlog[r]) + 1
                         /\ y.env = Some(Head(ch.buf))]_vars

\* C16 witness: the end was signalled after both envelopes were yielded, the
\* queue closed
C16_Witness ==
    \E r \in Runs :
        /\ StreamEnded(r)
        /\ Taken(r) = MaxInbound
        /\ chan[InboundOf(r)].closed

(***************************************************************************)
(* C17.  Where the engine task can be suspended.                           *)
(***************************************************************************)
\* A step in which a call on the sink returned
SinkCalled(r) == lastop'[r] # lastop[r] \/ sendlog'[r] # sendlog[r]

\* C17: poll_ready, poll_flush and poll_close return Ready(Ok), never Pending,
\* also on a full queue; start_send returns Ok or an error; after any of them
\* the engine task is still running.  poll_next leaves the task suspended
\* exactly when the inbound queue was open and empty, and a suspended task
\* whose queue has an envelope or is closed runs again.
C17_SuspensionPoints ==
    /\ [](\A r \in Runs :
              /\ IsSome(lastop[r]) => Unwrap(lastop[r]).ret = "Ready(Ok)"
              /\ \A i \in 1..Len(sendlog[r]) :
                     sendlog[r][i].ret \in {"Ok", "InvalidData", "Full", "Closed"})
    /\ [][\A r \in Runs :
              /\ SinkCalled(r) => eng'[r] = "active"
              /\ Polled(r) =>
                     (eng'[r] = "waiting" <=>
                          (/\ ~chan[InboundOf(r)].closed
                           /\ chan[InboundOf(r)].buf = <<>>))
              /\ (eng[r] = "active" /\ eng'[r] = "waiting") => Polled(r)]_vars
    /\ \A r \in Runs :
           (/\ eng[r] = "waiting"
            /\ (chan[InboundOf(r)].buf # <<>> \/ chan[InboundOf(r)].closed))
               ~> (eng[r] = "active")

\* C17 witness: poll_ready was called on a full outbound queue, and the engine
\* task is suspended in poll_next
C17_Witness ==
    \E r \in Runs :
        /\ IsSome(lastop[r])
        /\ Unwrap(lastop[r]).op = "poll_ready"
        /\ Unwrap(lastop[r]).full
        /\ eng[r] = "waiting"

(***************************************************************************)
(* C18.  poll_flush and poll_close.                                        *)
(***************************************************************************)
AfterClose(r) == IsSome(lastop[r]) /\ Unwrap(lastop[r]).op = "poll_close"

\* C18: a poll_flush or poll_close call returns Ready(Ok) and changes neither
\* the sink (its counter) nor any queue (contents, open or closed); a
\* start_send after poll_close does what start_send does on that sink and
\* queue: with room in an open queue the envelope is enqueued with the next
\* seq.
C18_FlushCloseNoOps ==
    [][\A r \in Runs :
           /\ (/\ lastop'[r] # lastop[r]
               /\ Unwrap(lastop'[r]).op \in {"poll_flush", "poll_close"}) =>
                  /\ Unwrap(lastop'[r]).ret = "Ready(Ok)"
                  /\ sink' = sink
                  /\ chan' = chan
                  /\ sendlog' = sendlog
           /\ (AfterClose(r) /\ Len(sendlog'[r]) = Len(sendlog[r]) + 1) =>
                  LET e == Last(sendlog'[r])
                      c == OutboundOf(r)
                      o == StartSendOutcome(Unwrap(sink[r]), chan[c], e.item)
                  IN  /\ e.ret = o.ret
                      /\ e.env = o.env
                      /\ chan'[c] = o.ch
                      /\ Unwrap(sink'[r]).seq = Unwrap(sink[r]).seq + 1
                      /\ (/\ ~chan[c].closed
                          /\ Len(chan[c].buf) < Capacity
                          /\ to_vec(e.item.msg).ok) =>
                             /\ e.ret = "Ok"
                             /\ Unwrap(e.env).seq = Unwrap(sink[r]).seq + 1
                             /\ chan'[c].buf = Append(chan[c].buf, Unwrap(e.env))]_vars

\* C18 witness: poll_close was called after one start_send, and the start_send
\* after it was accepted with seq 2
C18_Witness ==
    \E r \in Runs :
        /\ AfterClose(r)
        /\ Unwrap(lastop[r]).sends = 1
        /\ Len(sendlog[r]) = 2
        /\ sendlog[r][2].ret = "Ok"
        /\ Unwrap(sendlog[r][2].env).seq = 2
        /\ ~chan[OutboundOf(r)].closed

(***************************************************************************)
(* C15.  Order of the messages of one sender.                              *)
(***************************************************************************)
\* What poll_next of run r yielded for the envelopes of party p, in order
YieldedFrom(r, p) ==
    SelectSeq(yieldlog[r],
              LAMBDA y : IsSome(y.env) /\ Unwrap(y.env).sender = p)

\* C15: the envelopes of one sender that the receiver's poll_next has yielded
\* are, in order, the first envelopes that sender's sink enqueued, each yielded
\* as a message whose id is the envelope's seq, so with increasing ids; this
\* with the envelopes of two senders interleaved in the inbound queue.
C15_PerSenderOrder ==
    \A s \in Runs :
        LET ys == YieldedFrom(Receiver, cfg[s].party_index)
        IN  /\ Len(ys) <= Len(Emitted(s))
            /\ \A i \in 1..Len(ys) :
                   /\ Unwrap(ys[i].env) = Emitted(s)[i]
                   /\ ys[i].out.tag = "Ok"
                   /\ ys[i].out.incoming.id = Emitted(s)[i].seq
                   /\ ys[i].out.incoming.sender = cfg[s].party_index
            /\ \A i \in 1..Len(ys), j \in 1..Len(ys) :
                   i < j => ys[i].out.incoming.id < ys[j].out.incoming.id

\* C15 witness: the receiver was yielded two messages of each party,
\* alternating
C15_Witness ==
    /\ Len(yieldlog[Receiver]) = 4
    /\ \A i \in 1..4 :
           /\ IsSome(yieldlog[Receiver][i].env)
           /\ Unwrap(yieldlog[Receiver][i].env).sender = i % 2
    /\ Len(YieldedFrom(Receiver, 0)) = 2
    /\ Len(YieldedFrom(Receiver, 1)) = 2

(***************************************************************************)
(* C19.  A key share that does not deserialize.                            *)
(***************************************************************************)
\* C19: a signing run whose key share does not deserialize goes from the
\* deserialization straight to its return: it builds no adapter and starts no
\* engine, sends no envelope and takes none from the inbound queue, records no
\* phase, and returns one failure record, naming the deserialization, with no
\* signature and no benchmark report.
C19_BadKeyShareFailsAtOnce ==
    \A r \in Runs :
        (cfg[r].kind = "signing" /\ MalformedKeyShare(r)) =>
            /\ pc[r] \in {"start", "deser", "done"}
            /\ sink[r] = None
            /\ eng[r] = "idle"
            /\ sendlog[r] = <<>>
            /\ yieldlog[r] = <<>>
            /\ chan[OutboundOf(r)].buf = <<>>
            /\ recorder[r] \in {None, Some(BenchNew)}
            /\ pc[r] = "done" =>
                   /\ Len(result[r]) = 1
                   /\ ~TheResult(r).success
                   /\ TheResult(r).signature = None
                   /\ TheResult(r).benchmark = None
                   /\ IsSome(TheResult(r).error)
                   /\ Unwrap(TheResult(r).error)[1] = "Key share deserialization error: "

\* C19 witness: with benchmarking enabled such a run has returned while an
\* envelope was waiting in its inbound queue
C19_Witness ==
    \E r \in Runs :
        /\ cfg[r].kind = "signing"
        /\ cfg[r].enable_benchmark
        /\ MalformedKeyShare(r)
        /\ pc[r] = "done"
        /\ chan[InboundOf(r)].buf # <<>>

(***************************************************************************)
(* C20.  The phases of a signing run.                                      *)
(***************************************************************************)
\* The six phases, by the names signing.rs records them under
PhaseNames ==
    <<"1. Deserialize key_share", "2. Protocol setup (channels, party)",
      "3. Create signing builder", "4. Set taproot tweak (BIP-341)",
      "5. MPC signing protocol", "6. Extract signature components">>

IsPrefix(a, b) == Len(a) <= Len(b) /\ SubSeq(b, 1, Len(a)) = a

\* How many phases a run with benchmarking enabled has recorded at pc
PhasesAt(r) ==
    CASE pc[r] \in {"start", "deser"} -> {0}
      [] pc[r] = "setup" -> {1}
      [] pc[r] = "builder" -> {2}
      [] pc[r] = "tweak" -> {3}
      [] pc[r] = "engine" -> {4}
      [] pc[r] = "match" -> {5}
      [] OTHER -> 0..6

\* C20: the phases recorded are always the first k of the six in their order
\* (none twice, none before an earlier one), k following the run's position;
\* with benchmarking enabled a success carries a report with all six and a
\* failure of the engine one with exactly the first five; with benchmarking
\* disabled nothing is ever recorded and the result carries no report.
C20_PhasesInOrder ==
    \A r \in Runs :
        (cfg[r].kind = "signing" /\ IsSome(recorder[r])) =>
            LET steps == Unwrap(recorder[r]).steps
            IN  /\ IsPrefix(steps, PhaseNames)
                /\ IF cfg[r].enable_benchmark
                   THEN /\ Len(steps) \in PhasesAt(r)
                        /\ (pc[r] = "done" /\ TheResult(r).success) =>
                               /\ IsSome(TheResult(r).benchmark)
                               /\ Unwrap(TheResult(r).benchmark).phases = PhaseNames
                        /\ (pc[r] = "done" /\ EngineAbort(r)) =>
                               /\ IsSome(TheResult(r).benchmark)
                               /\ Unwrap(TheResult(r).benchmark).phases
                                      = SubSeq(PhaseNames, 1, 5)
                   ELSE /\ steps = <<>>
                        /\ pc[r] = "done" => TheResult(r).benchmark = None

\* C20 witness: a run with benchmarking enabled returned a success whose report
\* has the six phases
C20_Witness ==
    \E r \in Runs :
        /\ cfg[r].kind = "signing"
        /\ cfg[r].enable_benchmark
        /\ pc[r] = "done"
        /\ TheResult(r).success
        /\ Unwrap(TheResult(r).benchmark).phases = PhaseNames

\* C21: every envelope a run's sink enqueued, and so every envelope waiting
\* in a queue only that run sends into, carries the run's session_id, the
\* run's party_index as sender, and round 0, whatever the engine message
\* and its destination
EnqueuedItems(r) ==
    {sendlog[r][i].item : i \in {j \in DOMAIN sendlog[r] : sendlog[r][j].ret = "Ok"}}

HeaderFromRun(r, e) ==
    /\ e.session_id = cfg[r].session_id
    /\ e.sender = cfg[r].party_index
    /\ e.round = 0

C21_EnvelopeHeaderFromRun ==
    \A r \in Runs :
        /\ \A i \in DOMAIN sendlog[r] :
               LET c == sendlog[r][i]
               IN  /\ IsSome(c.env) <=> c.ret = "Ok"
                   /\ IsSome(c.env) => HeaderFromRun(r, Unwrap(c.env))
        /\ (\A q \in Runs \ {r} : OutboundOf(q) # OutboundOf(r))
               => \A e \in SeqToSet(chan[OutboundOf(r)].buf) : HeaderFromRun(r, e)

\* Run 2, of session "s2" and party 1, enqueued a broadcast and a
\* message addressed to one party, of different engine messages
C21_Witness ==
    /\ cfg[2].session_id = "s2"
    /\ cfg[2].party_index = 1
    /\ EnqueuedItems(2) = EnvelopeItems

\* C22: each run owns its sequence counter.  When runs of different
\* sessions or parties send concurrently, also into one shared queue, a
\* send by one run moves that run's counter by one and leaves every other
\* run's counter and log as they were, no step changes the counter of a
\* run that is not sending, and in every queue the envelopes of one run
\* stand in increasing seq order
SeqOf(r) == Unwrap(sink[r]).seq

OwnEnvelopesInSeqOrder(r, buf) ==
    \A i, j \in DOMAIN buf :
        (i < j /\ HeaderFromRun(r, buf[i]) /\ HeaderFromRun(r, buf[j]))
            => buf[i].seq < buf[j].seq

SendTouchesOwnCounterOnly ==
    \A r \in Runs :
        /\ sendlog'[r] # sendlog[r] =>
               /\ SeqOf(r)' = SeqOf(r) + 1
               /\ \A q \in Runs \ {r} :
                      sink'[q] = sink[q] /\ sendlog'[q] = sendlog[q]
        /\ (IsSome(sink[r]) /\ sink'[r] # sink[r]) => sendlog'[r] # sendlog[r]

C22_SessionIsolation ==
    /\ [](\A r \in Runs : \A c \in Chans : OwnEnvelopesInSeqOrder(r, chan[c].buf))
    /\ [](\A r \in Runs : OwnEnvelopesInSeqOrder(r, Emitted(r)))
    /\ [][SendTouchesOwnCounterOnly]_vars

\* Both runs send into the queue "out1"; what went through it is the
\* first envelope of run 1, then the first of run 2, then the second of
\* run 1, and the counters stand at 2 and 1
C22_Witness ==
    /\ OutboundOf(1) = "out1" /\ OutboundOf(2) = "out1"
    /\ Len(chan["in1"].buf) = 2 /\ Len(chan["out1"].buf) = 1
    /\ HeaderFromRun(1, chan["in1"].buf[1]) /\ chan["in1"].buf[1].seq = 1
    /\ HeaderFromRun(2, chan["in1"].buf[2]) /\ chan["in1"].buf[2].seq = 1
    /\ HeaderFromRun(1, chan["out1"].buf[1]) /\ chan["out1"].buf[1].seq = 2
    /\ SeqOf(1) = 2 /\ SeqOf(2) = 1

\* C23: the inbound adapter filters nothing.  Each envelope taken from the
\* inbound queue is yielded once, as a message with id = the envelope's seq,
\* sender = the envelope's sender and the payload's message, or as a decode
\* error when the payload does not deserialize, whatever its session_id,
\* recipient and seq are; a poll_next with an envelope waiting yields exactly
\* the head of the queue; and the envelopes yielded so far followed by those
\* still waiting are the envelopes that arrived, in arrival order: a
\* poll_next leaves that sequence as it is, any other step at most extends it
YieldedEnvelopes(r) ==
    LET ys == SelectSeq(yieldlog[r], LAMBDA y : IsSome(y.env))
    IN  [i \in DOMAIN ys |-> Unwrap(ys[i].env)]

Arrived(r) == YieldedEnvelopes(r) \o chan[InboundOf(r)].buf

YieldIsOfEnvelope(y) ==
    LET e  == Unwrap(y.env)
        de == from_slice(e.payload)
    IN  IF de.ok
        THEN /\ y.out.tag = "Ok"
             /\ y.out.incoming.id = e.seq
             /\ y.out.incoming.sender = e.sender
             /\ y.out.incoming.msg = de.msg
        ELSE y.out.tag = "Err"

C23_NoInboundFiltering ==
    /\ [](\A r \in Runs : \A i \in DOMAIN yieldlog[r] :
              LET y == yieldlog[r][i]
              IN  IF IsSome(y.env) THEN YieldIsOfEnvelope(y)
                  ELSE y.out.tag = "End")
    /\ [][\A r \in Runs :
              Started(r) =>
                  /\ IsPrefix(Arrived(r), Arrived(r)')
                  /\ Polled(r) =>
                         /\ Arrived(r)' = Arrived(r)
                         /\ chan[InboundOf(r)].buf # <<>> =>
                                /\ Len(yieldlog'[r]) = Len(yieldlog[r]) + 1
                                /\ Last(yieldlog'[r]).env =
                                       Some(Head(chan[InboundOf(r)].buf))
                                /\ chan'[InboundOf(r)].buf =
                                       Tail(chan[InboundOf(r)].buf)]_vars

\* Run 1, of session "s1" and party 0, was handed two messages with id 1: the
\* first from an envelope of session "s2", the second from an envelope
\* addressed to party 1
C23_Witness ==
    /\ cfg[1].session_id = "s1" /\ cfg[1].party_index = 0
    /\ Len(yieldlog[1]) = 2
    /\ \A i \in 1..2 : /\ yieldlog[1][i].out.tag = "Ok"
                       /\ yieldlog[1][i].out.incoming.id = 1
    /\ Unwrap(yieldlog[1][1].env).session_id = "s2"
    /\ Unwrap(yieldlog[1][2].env).recipient = Some(1)

\* C24: after k start_send calls on a sink its counter is k, whether the
\* calls succeeded or failed; the envelope enqueued by the i-th call carries
\* seq i, a failed call enqueues nothing, and so two envelopes enqueued with
\* a failed call in between differ in seq by more than one
FailedBetween(r, i, j) ==
    \E m \in DOMAIN sendlog[r] : i < m /\ m < j /\ sendlog[r][m].ret # "Ok"

C24_FailedSendConsumesSeq ==
    \A r \in Runs :
        IF ~IsSome(sink[r]) THEN sendlog[r] = <<>>
        ELSE
            /\ SeqOf(r) = Len(sendlog[r])
            /\ \A i \in DOMAIN sendlog[r] :
                   IF sendlog[r][i].ret = "Ok"
                   THEN Unwrap(sendlog[r][i].env).seq = i
                   ELSE sendlog[r][i].env = None
            /\ \A i, j \in DOMAIN sendlog[r] :
                   (/\ sendlog[r][i].ret = "Ok"
                    /\ sendlog[r][j].ret = "Ok"
                    /\ FailedBetween(r, i, j))
                       => Unwrap(sendlog[r][j].env).seq
                              > Unwrap(sendlog[r][i].env).seq + 1

\* Three calls: the first enqueued seq 1, the second failed, the third
\* enqueued seq 3, and the counter stands at 3
C24_Witness ==
    /\ Len(sendlog[1]) = 3
    /\ sendlog[1][1].ret = "Ok" /\ Unwrap(sendlog[1][1].env).seq = 1
    /\ sendlog[1][2].ret # "Ok"
    /\ sendlog[1][3].ret = "Ok" /\ Unwrap(sendlog[1][3].env).seq = 3
    /\ SeqOf(1) = 3
====
